---- MODULE Spec2Model ----
(***************************************************************************)
(* Model of walrus-cli's addr, txn, split, sign and broadcast commands     *)
(* (src/main.go): one command invocation is one behaviour.  Currency is a  *)
(* natural number in a model unit of 1/1000 SC (the code's unit is         *)
(* 10^-24 SC; the scale is reduced so that amounts stay within 32-bit      *)
(* integers).  Every amount the model draws has at most one decimal place, *)
(* so that parseCurrency and the 1% donation are exact at either scale and *)
(* the model's values are the code's values divided by 10^21.              *)
(***************************************************************************)
EXTENDS Integers, Sequences, FiniteSets, TLC

\* ---------------------------------------------------------------- bounds
MaxRecipients == 1
MaxUtxos == 2
MaxInputs == 3
MaxN == 2
MaxIndex == 2

\* ------------------------------------------------------------- constants
\* types.SiacoinPrecision: smallest units per SC (scaled, see above)
SiacoinPrecision == 1000
\* transaction size model of the funding routines, spec section 4.1
SizeBase == 10
BytesPerInput == 10
BytesPerOutput == 5
OutputCountEstimate == 2
\* c.RecommendedFee: the fee per byte the Ledger Service answers with
RecommendedFee == 10

\* ------------------------------------------------------------ primitives
Max(a, b) == IF a >= b THEN a ELSE b

Range(s) == {s[i] : i \in 1..Len(s)}

RECURSIVE SumSeq(_)
SumSeq(s) == IF s = <<>> THEN 0 ELSE s[1] + SumSeq(Tail(s))

SeqsUpTo(S, n) == UNION {[1..k -> S] : k \in 0..n}

\* Currency.MulRat: multiply by num/den, truncating to a whole unit
MulRat(c, num, den) == (c * num) \div den

\* Currency.Mul64
Mul64(c, k) == c * k

\* --------------------------------------------------------------- parsing
\* An amount argument is given by what its text, with the surrounding white
\* space trimmed (strings.TrimSpace), denotes: "rat" for text big.Rat.SetString
\* accepts, with the fraction num/den it reads ("5" is Dec(5, 1), "0.1" is
\* Dec(1, 10), "1200.5" is Dec(2401, 2)); "float" for text SetString rejects
\* and strconv.ParseFloat accepts ("Inf", "NaN"); "junk" for text both reject.
Dec(num, den) == [text |-> "rat", num |-> num, den |-> den]
FloatOnly == [text |-> "float", num |-> 0, den |-> 1]
Junk == [text |-> "junk", num |-> 0, den |-> 1]

\* big.Rat.SetString: ok, and <<num, den>> of the fraction read
RatOk(s) == s.text = "rat"
RatSetString(s) == <<s.num, s.den>>

\* strconv.ParseFloat(s, 64) returns no error
ParseFloatOk(s) == s.text \in {"rat", "float"}

\* parseCurrency: "ok" when SetString succeeds; "fatal" (Invalid currency
\* value) when SetString and ParseFloat both fail; "panic" when only
\* SetString fails, since MulRat is then called with a nil *big.Rat
parseCurrencyOutcome(s) ==
    IF RatOk(s) THEN "ok"
    ELSE IF ParseFloatOk(s) THEN "panic"
    ELSE "fatal"

\* parseCurrency's result when SetString succeeds: SiacoinPrecision.MulRat(r)
parseCurrency(s) ==
    LET r == RatSetString(s) IN MulRat(SiacoinPrecision, r[1], r[2])

\* UnlockHash.LoadString: an address string decodes to an address, or fails
\* ("bad...": wrong length or checksum).  The string "s:X" encodes address X.
AddrStrings == {"s:r1", "s:c9", "bad"}
ChangeArgs == {"", "s:c9", "bad"}
LoadStringOk(s) == s \in {"s:r1", "s:c9"}
LoadString(s) == IF s = "s:r1" THEN "r1" ELSE "c9"

\* strconv.Atoi of the output count argument, given as its text's kind
\* ("num" for a decimal integer) and the value it denotes
AtoiOk(s) == s.text = "num"
Atoi(s) == s.val

\* strconv.ParseUint(s, 10, 32) of the index argument of addr
ParseUintOk(s) == s.text = "num" /\ s.val >= 0
ParseUint(s) == s.val

\* filepath.Ext / strings.TrimSuffix on a path <<stem, ext>>
SignedPath(p) == <<p[1] \o "-signed", p[2]>>

\* ------------------------------------------------- unlock conditions, keys
\* wallet.StandardUnlockConditions of the key at an index, and its hash
StandardUnlockConditions(addr) == [uc |-> addr]
UnlockHash(ucs) == ucs.uc

\* the address derived from the seed or device at a key index
StandardAddress(index) == IF index = 0 THEN "w0"
                          ELSE IF index = 1 THEN "w1"
                          ELSE IF index = 2 THEN "w2"
                          ELSE IF index = 3 THEN "w3"
                          ELSE "w4"

\* -------------------------------------------------------- coin selection
\* size(numInputs, numOutputs)
TxnSize(numInputs, numOutputs) ==
    SizeBase + BytesPerInput * numInputs + BytesPerOutput * numOutputs

\* higher value first, ties by ascending parent identifier
Before(a, b) == \/ a.value > b.value
                \/ (a.value = b.value /\ a.id < b.id)

RECURSIVE SortInputs(_)
SortInputs(s) ==
    IF s = <<>> THEN <<>>
    ELSE LET i == CHOOSE i \in 1..Len(s) :
                      \A j \in 1..Len(s) : j = i \/ Before(s[i], s[j])
                                           \/ (s[i] = s[j] /\ i < j)
             rest == [k \in 1..(Len(s) - 1) |-> IF k < i THEN s[k] ELSE s[k + 1]]
         IN  <<s[i]>> \o SortInputs(rest)

SumValues(s) == SumSeq([i \in 1..Len(s) |-> s[i].value])

\* Greedy selection with the two-pass fee reconciliation of spec 4.1:
\* take sorted inputs until they cover target + fee(count); then, if change
\* is left, re-price once with the change output present.
SelectCoins(target, feePerByte, available, numOutputs) ==
    LET sorted == SortInputs(available)
        Covers(k) == SumValues(SubSeq(sorted, 1, k))
                        >= target + feePerByte * TxnSize(k, numOutputs)
        ks == {k \in 1..Len(sorted) : Covers(k)}
    IN  IF ks = {} THEN [ok |-> FALSE, used |-> <<>>, fee |-> 0, change |-> 0]
        ELSE LET k == CHOOSE k \in ks : \A j \in ks : k <= j
                 used == SubSeq(sorted, 1, k)
                 acc == SumValues(used)
                 fee1 == feePerByte * TxnSize(k, numOutputs)
                 fee2 == feePerByte * TxnSize(k, numOutputs + 1)
             IN  IF acc - target - fee1 # 0 /\ acc >= target + fee2
                 THEN [ok |-> TRUE, used |-> used, fee |-> fee2,
                       change |-> acc - target - fee2]
                 ELSE [ok |-> TRUE, used |-> used, fee |-> fee1,
                       change |-> acc - target - fee1]

\* wallet.FundTransaction(amount, feePerByte, inputs)
FundTransaction(amount, feePerByte, inputs) ==
    SelectCoins(amount, feePerByte, inputs, OutputCountEstimate)

\* wallet.DistributeFunds(utxos, n, per, feePerByte); no inputs on failure
DistributeFunds(utxos, n, per, feePerByte) ==
    SelectCoins(Mul64(per, n), feePerByte, utxos, n)

\* ------------------------------------------------------------ input sets
\* amount arguments: "5", "1200.5", "Inf", "abc"
AmountArgs == {Dec(5, 1), Dec(2401, 2), FloatOnly, Junk}
\* output count arguments of split
CountArgs == {[text |-> "num", val |-> k] : k \in 1..MaxN}
                \cup {[text |-> "junk", val |-> 0]}
NoCount == [text |-> "num", val |-> 0]
\* index arguments of addr
IndexArgs == {[text |-> "num", val |-> k] : k \in 0..MaxIndex}
                \cup {[text |-> "junk", val |-> 0]}
\* recipient pairs, each split on ":" (strings.Split): addr:amount, and an
\* argument without a colon
PairArgs == {<<"s:r1", Dec(5, 1)>>, <<"s:r1", Dec(2401, 2)>>,
             <<"bad", Dec(5, 1)>>, <<"s:r1", Junk>>, <<"s:r1", FloatOnly>>,
             <<"s:r1">>}
\* values of the wallet's unspent outputs
UtxoValues == {5300, 10100, 1220000}
\* addresses of the inputs of a draft read by the sign command
DraftAddrs == {"w0", "w1", "x9"}

\* the address the donations endpoint answers with, and the zero UnlockHash
DonationAddress == "dn"
ZeroHash == "00"

\* the Ledger Service tracks w0 and w1 (key indices 0 and 1) at the start
InitTracked == {[addr |-> "w0", keyIndex |-> 0], [addr |-> "w1", keyIndex |-> 1]}

\* c.UnspentOutputs: the i-th output has ID i and belongs to a tracked address
MkUtxos(vals) ==
    [i \in 1..Len(vals) |->
        [id |-> i, value |-> vals[i], unlockHash |-> StandardAddress((i - 1) % 2)]]

NoSig == [by |-> "none", sigIndex |-> 0, keyIndex |-> 0]
FileSig == [by |-> "file", sigIndex |-> 0, keyIndex |-> 0]

\* a draft stored on disk: inputs, one output, a fee, maybe an old signature
MkDraft(addrs, oldSigs) ==
    [inputs |-> [i \in 1..Len(addrs) |->
                    [parentID |-> i, ucs |-> StandardUnlockConditions(addrs[i])]],
     outputs |-> <<[unlockHash |-> "r1", value |-> Mul64(SiacoinPrecision, 5)]>>,
     minerFees |-> <<RecommendedFee * TxnSize(Len(addrs), 1)>>,
     sigs |-> oldSigs]

EmptyTxn == [inputs |-> <<>>, outputs |-> <<>>, minerFees |-> <<>>, sigs |-> <<>>]

Call(op, a, b) == [op |-> op, a |-> a, b |-> b]

\* ----------------------------------------------------------------- state
VARIABLES
    inv,      \* the invocation: command, flags, arguments
    env,      \* what the Ledger Service and the disk hold at the start
    pc,       \* position in main
    exit,     \* "running", "done", "usage", "fatal", "panic" or "killed"
    err,      \* context of the fatal error reported by check
    loc,      \* main's local variables
    txn,      \* the transaction being assembled or signed
    txn0,     \* the transaction as it was when signing started
    sigMap,   \* signFlowCold's sigMap: pending (sigIndex, keyIndex) pairs
    sigAll,   \* every entry put into sigMap by this call
    tracked,  \* addresses tracked by the Ledger Service
    nanos,    \* getNanoS: TRUE once the device has been opened
    seed,     \* getSeed: TRUE once the seed has been read
    log,      \* calls made to the Ledger Service and the device, in order
    disk,     \* transaction files written: <<path, txn>>
    sent      \* transactions broadcast

vars == <<inv, env, pc, exit, err, loc, txn, txn0, sigMap, sigAll, tracked,
          nanos, seed, log, disk, sent>>

InitLoc == [outputs |-> <<>>, recipSum |-> 0, donation |-> 0,
            donationAddr |-> ZeroHash, inputs |-> <<>>, utxos |-> <<>>,
            feePerByte |-> 0, used |-> <<>>, fee |-> 0, change |-> 0,
            tries |-> 0, changeAddr |-> ZeroHash, n |-> 0, per |-> 0]

\* a draft file as the sign and broadcast commands may find it
Drafts ==
    {MkDraft(addrs, old) :
        addrs \in SeqsUpTo(DraftAddrs, MaxInputs),
        old \in {<<>>, <<[parentID |-> 1, signature |-> FileSig]>>}}

InitAddr ==
    /\ \E index \in IndexArgs, ledger \in BOOLEAN, nargs \in 0..2 :
          /\ inv = [cmd |-> "addr", sign |-> FALSE, broadcast |-> FALSE,
                 ledger |-> ledger, changeAddrStr |-> "", pairs |-> <<>>,
                 n |-> NoCount, per |-> Dec(0, 1), index |-> index,
                 nargs |-> nargs, path |-> <<"txn", ".json">>]
          /\ (nargs # 1 => index = NoCount)
          /\ (nargs = 2 => ~ledger)
    /\ env = [utxos |-> <<>>, donations |-> "nopath",
              feePerByte |-> RecommendedFee, file |-> EmptyTxn]

InitTxn ==
    /\ \E pairs \in SeqsUpTo(PairArgs, MaxRecipients) \ {<<>>},
          sign \in BOOLEAN, broadcast \in BOOLEAN, ledger \in BOOLEAN,
          change \in ChangeArgs, nargs \in 1..2 :
          /\ inv = [cmd |-> "txn", sign |-> sign, broadcast |-> broadcast,
                 ledger |-> ledger, changeAddrStr |-> change, pairs |-> pairs,
                 n |-> NoCount, per |-> Dec(0, 1), index |-> NoCount,
                 nargs |-> nargs, path |-> <<"txn", ".json">>]
          /\ (nargs = 1 => ~sign /\ ~ledger /\ change = ""
                             /\ pairs = <<<<"s:r1", Dec(5, 1)>>>>)
    /\ \E vals \in SeqsUpTo(UtxoValues, MaxUtxos),
          don \in {"nopath", "error", "ok"} :
          env = [utxos |-> MkUtxos(vals), donations |-> don,
                 feePerByte |-> RecommendedFee, file |-> EmptyTxn]

InitSplit ==
    /\ \E n \in CountArgs, per \in AmountArgs,
          sign \in BOOLEAN, broadcast \in BOOLEAN, ledger \in BOOLEAN,
          change \in ChangeArgs, nargs \in 2..3 :
          /\ inv = [cmd |-> "split", sign |-> sign, broadcast |-> broadcast,
                 ledger |-> ledger, changeAddrStr |-> change, pairs |-> <<>>,
                 n |-> n, per |-> per, index |-> NoCount, nargs |-> nargs,
                 path |-> <<"txn", ".json">>]
          /\ (nargs = 2 => ~sign /\ ~ledger /\ change = ""
                             /\ n.val = 1 /\ per = Dec(5, 1))
    /\ \E vals \in SeqsUpTo(UtxoValues, MaxUtxos) :
          env = [utxos |-> MkUtxos(vals), donations |-> "nopath",
                 feePerByte |-> RecommendedFee, file |-> EmptyTxn]

InitSign ==
    /\ \E broadcast \in BOOLEAN, ledger \in BOOLEAN, nargs \in 1..2 :
          /\ inv = [cmd |-> "sign", sign |-> TRUE, broadcast |-> broadcast,
                 ledger |-> ledger, changeAddrStr |-> "", pairs |-> <<>>,
                 n |-> NoCount, per |-> Dec(0, 1), index |-> NoCount,
                 nargs |-> nargs, path |-> <<"txn", ".json">>]
          /\ (nargs = 2 => ~broadcast /\ ~ledger)
    /\ \E file \in Drafts :
          env = [utxos |-> <<>>, donations |-> "nopath",
                 feePerByte |-> RecommendedFee, file |-> file]

InitBroadcast ==
    /\ \E nargs \in 1..2 :
          inv = [cmd |-> "broadcast", sign |-> FALSE, broadcast |-> FALSE,
                 ledger |-> FALSE, changeAddrStr |-> "", pairs |-> <<>>,
                 n |-> NoCount, per |-> Dec(0, 1), index |-> NoCount,
                 nargs |-> nargs, path |-> <<"txn", ".json">>]
    /\ \E file \in Drafts :
          env = [utxos |-> <<>>, donations |-> "nopath",
                 feePerByte |-> RecommendedFee, file |-> file]

Init ==
    /\ (InitAddr \/ InitTxn \/ InitSplit \/ InitSign \/ InitBroadcast)
    /\ pc = "start"
    /\ exit = "running"
    /\ err = ""
    /\ loc = InitLoc
    /\ txn = EmptyTxn
    /\ txn0 = EmptyTxn
    /\ sigMap = {}
    /\ sigAll = {}
    /\ tracked = InitTracked
    /\ nanos = FALSE
    /\ seed = FALSE
    /\ log = <<>>
    /\ disk = <<>>
    /\ sent = <<>>

\* check(err, ctx) with a non-nil error: log.Fatalf ends the process
Fatal(ctx) ==
    /\ exit' = "fatal"
    /\ err' = ctx
    /\ pc' = "exit"

\* a nil pointer dereference ends the process with a runtime panic
Panic ==
    /\ exit' = "panic"
    /\ err' = "nil pointer dereference"
    /\ pc' = "exit"

\* Ctrl-C at a prompt: the interrupt signal ends the process
Interrupt == "interrupt"
Killed ==
    /\ exit' = "killed"
    /\ err' = ""
    /\ pc' = "exit"

Abort(ctx) == IF ctx = Interrupt THEN Killed ELSE Fatal(ctx)

\* c.AddressInfo(addr).KeyIndex
KeyIndexOf(trk, a) == (CHOOSE r \in trk : r.addr = a).keyIndex

\* c.SeedIndex: the lowest unused key index
SeedIndex(trk) ==
    IF trk = {} THEN 0
    ELSE 1 + (CHOOSE m \in {r.keyIndex : r \in trk} :
                  \A r \in trk : r.keyIndex <= m)

\* ---------------------------------------------- steps that can go wrong
\* The steps of a handler that may end the process, in program order, are a
\* sequence of calls; getSeed (reading the seed phrase) and ReadLine (a
\* prompt) are local steps, the others go to the Ledger Service or the device.
LocalOps == {"getSeed", "ReadLine"}

\* the ways a step can end the process: the context check reports, or the
\* interrupt at a prompt
FailCtx(op) ==
    CASE op = "UnspentOutputs" -> {"Could not get utxos"}
      [] op = "AddressInfo" -> {"Could not get address info"}
      [] op = "RecommendedFee" -> {"Could not get recommended transaction fee"}
      [] op = "SeedIndex" -> {"Could not get next seed index"}
      [] op = "OpenNanoS" -> {"Could not connect to Nano S"}
      [] op = "GetAddress" -> {"Could not generate address"}
      [] op = "getSeed" -> {"Could not read seed phrase", "Invalid seed"}
      [] op = "ReadLine" -> {Interrupt}
      [] op = "AddAddress" -> {"Could not add address to wallet"}
      [] op = "Addresses" -> {"Could not get addresses"}
      [] op = "SignTransaction" -> {"Could not sign transaction"}
      [] OTHER -> {}

\* an outcome <<f, ctx>>: all steps succeed (f = 0), or step f fails with ctx
AllOk == <<0, "">>
Outcomes(steps) ==
    {AllOk} \cup UNION {{<<f, ctx>> : ctx \in FailCtx(steps[f].op)} :
                           f \in 1..Len(steps)}

\* the steps started, and the steps completed, under an outcome
Attempted(steps, o) == IF o[1] = 0 THEN steps ELSE SubSeq(steps, 1, o[1])
Completed(steps, o) == IF o[1] = 0 THEN steps ELSE SubSeq(steps, 1, o[1] - 1)
Did(steps, o, op) == \E i \in 1..Len(Completed(steps, o)) :
                        Completed(steps, o)[i].op = op

\* the calls that reach the Ledger Service or the device
External(steps) == SelectSeq(steps, LAMBDA c : c.op \notin LocalOps)

\* getNanoS and getSeed: the device is opened, the seed read, on first use
OpenSteps == IF nanos THEN <<>> ELSE <<Call("OpenNanoS", 0, 0)>>
SeedSteps == IF seed THEN <<>> ELSE <<Call("getSeed", 0, 0)>>

\* ----------------------------------------------------------- addr command
\* the steps of addr up to the duplicate test, for the index it works with
AddrSteps(index) ==
    (IF inv.nargs = 0 THEN <<Call("SeedIndex", 0, 0)>> ELSE <<>>)
    \o (IF inv.ledger THEN OpenSteps \o <<Call("GetAddress", index, 0)>>
        ELSE SeedSteps)
    \o <<Call("AddressInfo", index, 0)>>

\* main, case addrCmd: derive the address at the index, skip an address the
\* server already tracks at that index, else confirm and register it.  An
\* error of the AddressInfo call is not fatal: the address is then added.
AddrCmd ==
    /\ pc = "start" /\ inv.cmd = "addr"
    /\ IF inv.nargs > 1
       THEN /\ exit' = "usage" /\ pc' = "exit"
            /\ UNCHANGED <<err, tracked, nanos, seed, log>>
       ELSE IF inv.nargs = 1 /\ ~ParseUintOk(inv.index)
       THEN /\ Fatal("Invalid index")
            /\ UNCHANGED <<tracked, nanos, seed, log>>
       ELSE \E infoOk \in BOOLEAN :
            LET index == IF inv.nargs = 0 THEN SeedIndex(tracked)
                         ELSE ParseUint(inv.index)
                info == [addr |-> StandardAddress(index), keyIndex |-> index]
                duplicate == infoOk /\ info \in tracked
                probe == AddrSteps(index)
                steps == probe \o (IF duplicate THEN <<>>
                                   ELSE <<Call("ReadLine", 0, 0),
                                          Call("AddAddress", index, 0)>>)
            IN  \E o \in Outcomes(steps) :
                   /\ o[1] # Len(probe)
                   /\ log' = log \o External(Attempted(steps, o))
                   /\ nanos' = (nanos \/ Did(steps, o, "OpenNanoS"))
                   /\ seed' = (seed \/ Did(steps, o, "getSeed"))
                   /\ IF o = AllOk
                      THEN /\ tracked' = IF duplicate THEN tracked
                                         ELSE tracked \cup {info}
                           /\ exit' = "done" /\ pc' = "exit"
                           /\ UNCHANGED err
                      ELSE /\ Abort(o[2])
                           /\ UNCHANGED tracked
    /\ UNCHANGED <<inv, env, loc, txn, txn0, sigMap, sigAll, disk, sent>>

\* ------------------------------------------------------------ txn command
\* one pass of the loop over the pairs: the split on ":", the address, the
\* amount; "ok", "panic" or the context of the fatal error
PairOutcome(p) ==
    IF Len(p) # 2 THEN "Could not parse outputs"
    ELSE IF ~LoadStringOk(p[1]) THEN "Invalid destination address"
    ELSE IF parseCurrencyOutcome(p[2]) = "fatal" THEN "Invalid currency value"
    ELSE parseCurrencyOutcome(p[2])

\* main, case txnCmd: argument count and the outputs argument
TxnParse ==
    /\ pc = "start" /\ inv.cmd = "txn"
    /\ LET pairs == inv.pairs
           bad == {i \in 1..Len(pairs) : PairOutcome(pairs[i]) # "ok"}
           first == CHOOSE i \in bad : \A j \in bad : i <= j
           outputs == [i \in 1..Len(pairs) |->
                          [unlockHash |-> LoadString(pairs[i][1]),
                           value |-> parseCurrency(pairs[i][2])]]
       IN  IF ~(inv.nargs = 2 \/ (inv.nargs = 1 /\ inv.broadcast))
           THEN /\ exit' = "usage" /\ pc' = "exit"
                /\ UNCHANGED <<err, loc>>
           ELSE IF bad # {}
           THEN /\ IF PairOutcome(pairs[first]) = "panic" THEN Panic
                   ELSE Fatal(PairOutcome(pairs[first]))
                /\ UNCHANGED loc
           ELSE /\ loc' = [loc EXCEPT
                      !.outputs = outputs,
                      !.recipSum = SumSeq([i \in 1..Len(pairs) |-> outputs[i].value])]
                /\ pc' = "donation"
                /\ UNCHANGED <<exit, err>>
    /\ UNCHANGED <<inv, env, txn, txn0, sigMap, sigAll, tracked, nanos, seed,
                   log, disk, sent>>

\* variant: the 10 SC floor is applied as a cap
ComputeDonationMin(ok, recipSum) ==
    IF ok
    THEN LET d == MulRat(recipSum, 1, 100)
             tenSC == Mul64(SiacoinPrecision, 10)
         IN  IF d < tenSC THEN d ELSE tenSC
    ELSE 0

\* donation is max(1%, 10SC) when the donations endpoint answers
ComputeDonation(ok, recipSum) ==
    IF ok THEN Max(MulRat(recipSum, 1, 100), Mul64(SiacoinPrecision, 10))
    ELSE 0

\* getDonationAddr and the donation computation
TxnDonation ==
    /\ pc = "donation"
    /\ LET ok == env.donations = "ok"
       IN  /\ loc' = [loc EXCEPT
                  !.donationAddr = IF ok THEN DonationAddress ELSE ZeroHash,
                  !.donation = ComputeDonation(ok, loc.recipSum)]
           /\ log' = IF env.donations = "nopath" THEN log
                     ELSE Append(log, Call("Donations", 0, 0))
    /\ pc' = "fetch"
    /\ UNCHANGED <<inv, env, exit, err, txn, txn0, sigMap, sigAll, tracked,
                   nanos, seed, disk, sent>>

\* the AddressInfo calls made for a sequence of outputs
InfoCalls(outs) == [i \in 1..Len(outs) |-> Call("AddressInfo", outs[i].id, 0)]

\* c.UnspentOutputs, c.AddressInfo per output, c.RecommendedFee
TxnFetch ==
    /\ pc = "fetch" /\ inv.cmd = "txn"
    /\ LET steps == <<Call("UnspentOutputs", 0, 0)>> \o InfoCalls(env.utxos)
                        \o <<Call("RecommendedFee", 0, 0)>>
       IN  \E o \in Outcomes(steps) :
              /\ log' = log \o External(Attempted(steps, o))
              /\ IF o = AllOk
                 THEN /\ loc' = [loc EXCEPT
                             !.utxos = env.utxos,
                             !.inputs = [i \in 1..Len(env.utxos) |->
                                 [id |-> env.utxos[i].id,
                                  ucs |-> StandardUnlockConditions(
                                              env.utxos[i].unlockHash),
                                  value |-> env.utxos[i].value]],
                             !.feePerByte = env.feePerByte]
                      /\ pc' = "fund"
                      /\ UNCHANGED <<exit, err>>
                 ELSE /\ Fatal(o[2])
                      /\ UNCHANGED loc
    /\ UNCHANGED <<inv, env, txn, txn0, sigMap, sigAll, tracked, nanos, seed,
                   disk, sent>>

\* variant: no second attempt without the donation
FundWithoutFallback(recipSum, donation, feePerByte, inputs) ==
    LET try1 == FundTransaction(recipSum + donation, feePerByte, inputs)
    IN  IF try1.ok
        THEN [ok |-> TRUE, used |-> try1.used, fee |-> try1.fee,
              change |-> try1.change, donation |-> donation, tries |-> 1]
        ELSE [ok |-> FALSE, used |-> <<>>, fee |-> 0, change |-> 0,
              donation |-> donation, tries |-> 1]

\* variant: the fallback keeps the computed donation and the change as change
FundWithFallbackNoSwap(recipSum, donation, feePerByte, inputs) ==
    LET try1 == FundTransaction(recipSum + donation, feePerByte, inputs)
        try2 == FundTransaction(recipSum, feePerByte, inputs)
    IN  IF try1.ok
        THEN [ok |-> TRUE, used |-> try1.used, fee |-> try1.fee,
              change |-> try1.change, donation |-> donation, tries |-> 1]
        ELSE IF try2.ok
        THEN [ok |-> TRUE, used |-> try2.used, fee |-> try2.fee,
              change |-> try2.change, donation |-> donation, tries |-> 2]
        ELSE [ok |-> FALSE, used |-> <<>>, fee |-> 0, change |-> 0,
              donation |-> donation, tries |-> 2]

\* FundTransaction with the donation, then without it, donating the change
FundWithFallback(recipSum, donation, feePerByte, inputs) ==
    LET try1 == FundTransaction(recipSum + donation, feePerByte, inputs)
        try2 == FundTransaction(recipSum, feePerByte, inputs)
    IN  IF try1.ok
        THEN [ok |-> TRUE, used |-> try1.used, fee |-> try1.fee,
              change |-> try1.change, donation |-> donation, tries |-> 1]
        ELSE IF try2.ok
        THEN [ok |-> TRUE, used |-> try2.used, fee |-> try2.fee,
              change |-> 0, donation |-> try2.change, tries |-> 2]
        ELSE [ok |-> FALSE, used |-> <<>>, fee |-> 0, change |-> 0,
              donation |-> donation, tries |-> 2]

\* variant: the donation output is added without testing the donation
WithDonationAlways(outputs, donationAddr, donation) ==
    Append(outputs, [unlockHash |-> donationAddr, value |-> donation])

\* the donation output is added only for a non-zero donation
WithDonation(outputs, donationAddr, donation) ==
    IF donation # 0
    THEN Append(outputs, [unlockHash |-> donationAddr, value |-> donation])
    ELSE outputs

\* fund transaction, fall back, add the donation output
TxnFund ==
    /\ pc = "fund"
    /\ LET f == FundWithFallback(loc.recipSum, loc.donation, loc.feePerByte,
                                 loc.inputs)
       IN  IF f.ok
           THEN /\ loc' = [loc EXCEPT
                       !.used = f.used, !.fee = f.fee, !.change = f.change,
                       !.donation = f.donation, !.tries = f.tries,
                       !.outputs = WithDonation(loc.outputs, loc.donationAddr,
                                                f.donation)]
                /\ pc' = "change"
                /\ UNCHANGED <<exit, err>>
           ELSE /\ Fatal("Could not create transaction: insufficient funds")
                /\ loc' = [loc EXCEPT !.tries = f.tries]
    /\ UNCHANGED <<inv, env, txn, txn0, sigMap, sigAll, tracked, nanos, seed,
                   log, disk, sent>>

\* the steps of getChangeFlow: next key index, the address (from the device
\* with --ledger, else from the seed), the prompt, the registration
getChangeSteps ==
    LET index == SeedIndex(tracked)
    IN  <<Call("SeedIndex", 0, 0)>>
        \o (IF inv.ledger THEN OpenSteps \o <<Call("GetAddress", index, 0)>>
            ELSE SeedSteps)
        \o <<Call("ReadLine", 0, 0), Call("AddAddress", index, 0)>>

\* getChangeFlow under outcome o: the address is registered when every step
\* succeeds; a failed AddAddress call was sent and registers nothing.
getChangeFlow(o) ==
    LET index == SeedIndex(tracked)
        steps == getChangeSteps
    IN  [ok |-> o = AllOk,
         ctx |-> o[2],
         addr |-> StandardAddress(index),
         calls |-> External(Attempted(steps, o)),
         reg |-> IF o = AllOk
                 THEN {[addr |-> StandardAddress(index), keyIndex |-> index]}
                 ELSE {},
         nanos |-> nanos \/ Did(steps, o, "OpenNanoS"),
         seed |-> seed \/ Did(steps, o, "getSeed")]

\* variant: --change is ignored and a new address is always generated
ChangeAddressAlwaysNew(o) == getChangeFlow(o)

\* the change address: --change if given, else getChangeFlow
ChangeAddress(o) ==
    IF inv.changeAddrStr # ""
    THEN [ok |-> LoadStringOk(inv.changeAddrStr),
          ctx |-> "Could not parse change address",
          addr |-> LoadString(inv.changeAddrStr),
          calls |-> <<>>, reg |-> {}, nanos |-> nanos, seed |-> seed]
    ELSE getChangeFlow(o)

NoChangeAddress ==
    [ok |-> TRUE, ctx |-> "", addr |-> ZeroHash, calls |-> <<>>, reg |-> {},
     nanos |-> nanos, seed |-> seed]

\* the outcomes of the change step: those of getChangeFlow when it is called
ChangeOutcomes(needed) ==
    IF needed /\ inv.changeAddrStr = "" THEN Outcomes(getChangeSteps)
    ELSE {AllOk}

\* variant: the change output is added even when the change is zero
WithChangeAlways(outputs, changeAddr, change) ==
    Append(outputs, [unlockHash |-> changeAddr, value |-> change])

\* variant: the change output is never added
WithChangeDropped(outputs, changeAddr, change) == outputs

\* the change output is added only for non-zero change
WithChange(outputs, changeAddr, change) ==
    IF change # 0
    THEN Append(outputs, [unlockHash |-> changeAddr, value |-> change])
    ELSE outputs

\* add change (if there is any) and build the transaction
TxnChange ==
    /\ pc = "change" /\ inv.cmd = "txn"
    /\ \E o \in ChangeOutcomes(loc.change # 0) :
          LET a == IF loc.change # 0 THEN ChangeAddress(o)
                   ELSE NoChangeAddress
              outputs == WithChange(loc.outputs, a.addr, loc.change)
          IN  /\ log' = log \o a.calls
              /\ tracked' = tracked \cup a.reg
              /\ nanos' = a.nanos
              /\ seed' = a.seed
              /\ IF a.ok
                 THEN /\ loc' = [loc EXCEPT !.outputs = outputs,
                                            !.changeAddr = a.addr]
                      /\ txn' = [inputs |-> [i \in 1..Len(loc.used) |->
                                     [parentID |-> loc.used[i].id,
                                      ucs |-> loc.used[i].ucs]],
                                 outputs |-> outputs,
                                 minerFees |-> <<loc.fee>>,
                                 sigs |-> <<>>]
                      /\ txn0' = txn'
                      /\ pc' = "sign"
                      /\ UNCHANGED <<exit, err>>
                 ELSE /\ Abort(a.ctx)
                      /\ UNCHANGED <<loc, txn, txn0>>
    /\ UNCHANGED <<inv, env, sigMap, sigAll, disk, sent>>

\* ---------------------------------------------------------- split command
\* main, case splitCmd: argument count, n and the per-output value
SplitParse ==
    /\ pc = "start" /\ inv.cmd = "split"
    /\ IF ~(inv.nargs = 3 \/ (inv.nargs = 2 /\ inv.broadcast))
       THEN /\ exit' = "usage" /\ pc' = "exit"
            /\ UNCHANGED <<err, loc>>
       ELSE IF ~AtoiOk(inv.n)
       THEN Fatal("Could not parse number of outputs") /\ UNCHANGED loc
       ELSE IF parseCurrencyOutcome(inv.per) = "fatal"
       THEN Fatal("Invalid currency value") /\ UNCHANGED loc
       ELSE IF parseCurrencyOutcome(inv.per) = "panic"
       THEN Panic /\ UNCHANGED loc
       ELSE /\ loc' = [loc EXCEPT !.n = Atoi(inv.n),
                                  !.per = parseCurrency(inv.per)]
            /\ pc' = "fetch"
            /\ UNCHANGED <<exit, err>>
    /\ UNCHANGED <<inv, env, txn, txn0, sigMap, sigAll, tracked, nanos, seed,
                   log, disk, sent>>

\* fetch utxos and fee
SplitFetch ==
    /\ pc = "fetch" /\ inv.cmd = "split"
    /\ LET steps == <<Call("UnspentOutputs", 0, 0), Call("RecommendedFee", 0, 0)>>
       IN  \E o \in Outcomes(steps) :
              /\ log' = log \o External(Attempted(steps, o))
              /\ IF o = AllOk
                 THEN /\ loc' = [loc EXCEPT !.utxos = env.utxos,
                                            !.feePerByte = env.feePerByte]
                      /\ pc' = "distribute"
                      /\ UNCHANGED <<exit, err>>
                 ELSE /\ Fatal(o[2])
                      /\ UNCHANGED loc
    /\ UNCHANGED <<inv, env, txn, txn0, sigMap, sigAll, tracked, nanos, seed,
                   disk, sent>>

\* wallet.DistributeFunds; no inputs selected means insufficient funds
SplitFund ==
    /\ pc = "distribute"
    /\ LET d == DistributeFunds(loc.utxos, loc.n, loc.per, loc.feePerByte)
       IN  IF Len(d.used) = 0
           THEN /\ Fatal("Could not create split transaction: insufficient funds")
                /\ UNCHANGED loc
           ELSE /\ loc' = [loc EXCEPT !.used = d.used, !.fee = d.fee,
                                      !.change = d.change]
                /\ pc' = "change"
                /\ UNCHANGED <<exit, err>>
    /\ UNCHANGED <<inv, env, txn, txn0, sigMap, sigAll, tracked, nanos, seed,
                   log, disk, sent>>

\* get change output and create txn: the change address first, then one
\* AddressInfo call per selected input
SplitChange ==
    /\ pc = "change" /\ inv.cmd = "split"
    /\ \E o \in ChangeOutcomes(TRUE), g \in Outcomes(InfoCalls(loc.used)) :
          LET a == ChangeAddress(o)
              infos == InfoCalls(loc.used)
              outputs == WithChange([i \in 1..loc.n |->
                                        [unlockHash |-> a.addr, value |-> loc.per]],
                                    a.addr, loc.change)
          IN  /\ (a.ok \/ g = AllOk)
              /\ tracked' = tracked \cup a.reg
              /\ nanos' = a.nanos
              /\ seed' = a.seed
              /\ IF ~a.ok
                 THEN /\ log' = log \o a.calls
                      /\ Abort(a.ctx)
                      /\ UNCHANGED <<loc, txn, txn0>>
                 ELSE IF g # AllOk
                 THEN /\ log' = log \o a.calls \o Attempted(infos, g)
                      /\ Fatal(g[2])
                      /\ UNCHANGED <<loc, txn, txn0>>
                 ELSE /\ log' = log \o a.calls \o infos
                      /\ loc' = [loc EXCEPT !.outputs = outputs,
                                            !.changeAddr = a.addr]
                      /\ txn' = [inputs |-> [i \in 1..Len(loc.used) |->
                                     [parentID |-> loc.used[i].id,
                                      ucs |-> StandardUnlockConditions(
                                                  loc.used[i].unlockHash)]],
                                 outputs |-> outputs,
                                 minerFees |-> <<loc.fee>>,
                                 sigs |-> <<>>]
                      /\ txn0' = txn'
                      /\ pc' = "sign"
                      /\ UNCHANGED <<exit, err>>
    /\ UNCHANGED <<inv, env, sigMap, sigAll, disk, sent>>

\* ------------------------------------------------- sign, broadcast commands
\* readTxn: the file is read and parsed, or one of its two checks fails
readTxnOutcomes ==
    {"ok", "Could not read transaction file", "Could not parse transaction file"}

\* main, case signCmd: argument count and readTxn
SignRead ==
    /\ pc = "start" /\ inv.cmd = "sign"
    /\ \E r \in readTxnOutcomes :
          IF inv.nargs # 1
          THEN /\ exit' = "usage" /\ pc' = "exit"
               /\ UNCHANGED <<err, txn, txn0>>
          ELSE IF r = "ok"
          THEN /\ txn' = env.file
               /\ txn0' = env.file
               /\ pc' = "sign"
               /\ UNCHANGED <<exit, err>>
          ELSE /\ Fatal(r)
               /\ UNCHANGED <<txn, txn0>>
    /\ UNCHANGED <<inv, env, loc, sigMap, sigAll, tracked, nanos, seed, log,
                   disk, sent>>

\* main, case broadcastCmd: argument count and readTxn; the transaction read
\* goes to broadcastFlow as it is
BroadcastRead ==
    /\ pc = "start" /\ inv.cmd = "broadcast"
    /\ \E r \in readTxnOutcomes :
          IF inv.nargs # 1
          THEN /\ exit' = "usage" /\ pc' = "exit"
               /\ UNCHANGED <<err, txn, txn0>>
          ELSE IF r = "ok"
          THEN /\ txn' = env.file
               /\ txn0' = env.file
               /\ pc' = "finish"
               /\ UNCHANGED <<exit, err>>
          ELSE /\ Fatal(r)
               /\ UNCHANGED <<txn, txn0>>
    /\ UNCHANGED <<inv, env, loc, sigMap, sigAll, tracked, nanos, seed, log,
                   disk, sent>>

\* ----------------------------------------------------------------- signing
\* txn and split without --sign
SkipSign ==
    /\ pc = "sign" /\ ~inv.sign
    /\ pc' = "finish"
    /\ UNCHANGED <<inv, env, exit, err, loc, txn, txn0, sigMap, sigAll, tracked,
                   nanos, seed, log, disk, sent>>

Owned(trk, in) == UnlockHash(in.ucs) \in {r.addr : r \in trk}

\* variant: an entry already present for the input's parent ID is reused
RECURSIVE AllocSlotsReuse(_, _, _)
AllocSlotsReuse(ins, sigs, trk) ==
    IF ins = <<>> THEN [sigs |-> sigs, sigMap |-> {}, calls |-> <<>>]
    ELSE LET in == Head(ins)
             present == {k \in 1..Len(sigs) : sigs[k].parentID = in.parentID}
             sigs1 == IF present = {}
                      THEN Append(sigs, [parentID |-> in.parentID,
                                         signature |-> NoSig])
                      ELSE sigs
             index == IF present = {} THEN Len(sigs1) - 1
                      ELSE (CHOOSE k \in present : TRUE) - 1
             keyIndex == KeyIndexOf(trk, UnlockHash(in.ucs))
         IN  IF Owned(trk, in)
             THEN LET rest == AllocSlotsReuse(Tail(ins), sigs1, trk)
                  IN  [sigs |-> rest.sigs,
                       sigMap |-> rest.sigMap \cup {<<index, keyIndex>>},
                       calls |-> <<Call("AddressInfo", in.parentID, 0)>>
                                 \o rest.calls]
             ELSE AllocSlotsReuse(Tail(ins), sigs, trk)

\* variant: the key index reported by AddressInfo is not recorded
RECURSIVE AllocSlotsNoKey(_, _, _)
AllocSlotsNoKey(ins, sigs, trk) ==
    IF ins = <<>> THEN [sigs |-> sigs, sigMap |-> {}, calls |-> <<>>]
    ELSE LET in == Head(ins)
             sigs1 == Append(sigs, [parentID |-> in.parentID, signature |-> NoSig])
         IN  IF Owned(trk, in)
             THEN LET rest == AllocSlotsNoKey(Tail(ins), sigs1, trk)
                  IN  [sigs |-> rest.sigs,
                       sigMap |-> rest.sigMap \cup {<<Len(sigs1) - 1, 0>>},
                       calls |-> <<Call("AddressInfo", in.parentID, 0)>>
                                 \o rest.calls]
             ELSE AllocSlotsNoKey(Tail(ins), sigs, trk)

\* variant: the signature entry is appended before the ownership test
RECURSIVE AllocSlotsEveryInput(_, _, _)
AllocSlotsEveryInput(ins, sigs, trk) ==
    IF ins = <<>> THEN [sigs |-> sigs, sigMap |-> {}, calls |-> <<>>]
    ELSE LET in == Head(ins)
             sigs1 == Append(sigs, [parentID |-> in.parentID, signature |-> NoSig])
             keyIndex == KeyIndexOf(trk, UnlockHash(in.ucs))
             rest == AllocSlotsEveryInput(Tail(ins), sigs1, trk)
         IN  IF Owned(trk, in)
             THEN [sigs |-> rest.sigs,
                   sigMap |-> rest.sigMap \cup {<<Len(sigs1) - 1, keyIndex>>},
                   calls |-> <<Call("AddressInfo", in.parentID, 0)>>
                             \o rest.calls]
             ELSE rest

\* signFlowCold's first loop: a signature entry and a sigMap entry for every
\* input whose address the wallet tracks
RECURSIVE AllocSlots(_, _, _)
AllocSlots(ins, sigs, trk) ==
    IF ins = <<>> THEN [sigs |-> sigs, sigMap |-> {}, calls |-> <<>>]
    ELSE LET in == Head(ins)
             sigs1 == Append(sigs, [parentID |-> in.parentID, signature |-> NoSig])
             keyIndex == KeyIndexOf(trk, UnlockHash(in.ucs))
         IN  IF Owned(trk, in)
             THEN LET rest == AllocSlots(Tail(ins), sigs1, trk)
                  IN  [sigs |-> rest.sigs,
                       sigMap |-> rest.sigMap \cup {<<Len(sigs1) - 1, keyIndex>>},
                       calls |-> <<Call("AddressInfo", in.parentID, 0)>>
                                 \o rest.calls]
             ELSE AllocSlots(Tail(ins), sigs, trk)

\* variant: an empty sigMap is returned to main as an error
SignColdPrepareNothingIsError ==
    /\ pc = "sign" /\ inv.sign /\ inv.ledger
    /\ LET r == AllocSlots(txn.inputs, txn.sigs, tracked)
           steps == OpenSteps \o <<Call("Addresses", 0, 0)>> \o r.calls
       IN  \E o \in Outcomes(steps) :
              LET answered == Cardinality({i \in 1..Len(Completed(steps, o)) :
                                  Completed(steps, o)[i].op = "AddressInfo"})
                  upTo == Len(txn.sigs) + answered
              IN  /\ log' = log \o External(Attempted(steps, o))
                  /\ nanos' = (nanos \/ Did(steps, o, "OpenNanoS"))
                  /\ IF o = AllOk
                     THEN /\ txn' = [txn EXCEPT !.sigs = r.sigs]
                          /\ sigMap' = r.sigMap
                          /\ sigAll' = r.sigMap
                          /\ IF r.sigMap = {}
                             THEN Fatal("Could not sign transaction")
                             ELSE pc' = "signing" /\ UNCHANGED <<exit, err>>
                     ELSE /\ txn' = [txn EXCEPT !.sigs = SubSeq(r.sigs, 1, upTo)]
                          /\ sigMap' = {e \in r.sigMap : e[1] < upTo}
                          /\ sigAll' = {e \in r.sigMap : e[1] < upTo}
                          /\ Fatal(o[2])
    /\ UNCHANGED <<inv, env, loc, txn0, tracked, seed, disk, sent>>

\* signFlowCold up to the signature requests: getNanoS, c.Addresses, then the
\* first loop.  A failed AddressInfo call ends the process with the entries
\* of the owned inputs before it already appended.
SignColdPrepare ==
    /\ pc = "sign" /\ inv.sign /\ inv.ledger
    /\ LET r == AllocSlots(txn.inputs, txn.sigs, tracked)
           steps == OpenSteps \o <<Call("Addresses", 0, 0)>> \o r.calls
       IN  \E o \in Outcomes(steps) :
              LET answered == Cardinality({i \in 1..Len(Completed(steps, o)) :
                                  Completed(steps, o)[i].op = "AddressInfo"})
                  upTo == Len(txn.sigs) + answered
              IN  /\ log' = log \o External(Attempted(steps, o))
                  /\ nanos' = (nanos \/ Did(steps, o, "OpenNanoS"))
                  /\ IF o = AllOk
                     THEN /\ txn' = [txn EXCEPT !.sigs = r.sigs]
                          /\ sigMap' = r.sigMap
                          /\ sigAll' = r.sigMap
                          /\ pc' = IF r.sigMap = {} THEN "finish" ELSE "signing"
                          /\ UNCHANGED <<exit, err>>
                     ELSE /\ txn' = [txn EXCEPT !.sigs = SubSeq(r.sigs, 1, upTo)]
                          /\ sigMap' = {e \in r.sigMap : e[1] < upTo}
                          /\ sigAll' = {e \in r.sigMap : e[1] < upTo}
                          /\ Fatal(o[2])
    /\ UNCHANGED <<inv, env, loc, txn0, tracked, seed, disk, sent>>

\* the entries a range over sigMap may yield next: Go leaves the iteration
\* order of a map unspecified
RangeNext(m) == m

\* what the device returns for a signature request
DeviceSig(sigIndex, keyIndex) ==
    [by |-> "nanos", sigIndex |-> sigIndex, keyIndex |-> keyIndex]

\* variant: the returned bytes are installed before the error is checked
SignColdRequestInstallFirst ==
    /\ pc = "signing"
    /\ \E e \in RangeNext(sigMap), signed \in BOOLEAN :
          /\ log' = Append(log, Call("SignTxn", e[1], e[2]))
          /\ IF signed
             THEN /\ txn' = [txn EXCEPT
                        ![("sigs")][e[1] + 1].signature = DeviceSig(e[1], e[2])]
                  /\ sigMap' = sigMap \ {e}
                  /\ pc' = IF sigMap \ {e} = {} THEN "finish" ELSE "signing"
                  /\ UNCHANGED <<exit, err>>
             ELSE /\ txn' = [txn EXCEPT
                        ![("sigs")][e[1] + 1].signature =
                            [by |-> "junk", sigIndex |-> e[1], keyIndex |-> e[2]]]
                  /\ Fatal("Could not get signature")
                  /\ UNCHANGED sigMap
    /\ UNCHANGED <<inv, env, loc, txn0, sigAll, tracked, nanos, seed,
                   disk, sent>>

\* variant: a failed signature request is skipped instead of being fatal
SignColdRequestSkipFailure ==
    /\ pc = "signing"
    /\ \E e \in RangeNext(sigMap), signed \in BOOLEAN :
          /\ log' = Append(log, Call("SignTxn", e[1], e[2]))
          /\ txn' = IF signed
                    THEN [txn EXCEPT
                        ![("sigs")][e[1] + 1].signature = DeviceSig(e[1], e[2])]
                    ELSE txn
          /\ sigMap' = sigMap \ {e}
          /\ pc' = IF sigMap \ {e} = {} THEN "finish" ELSE "signing"
          /\ UNCHANGED <<exit, err>>
    /\ UNCHANGED <<inv, env, loc, txn0, sigAll, tracked, nanos, seed,
                   disk, sent>>

\* one iteration of signFlowCold's second loop: nanos.SignTxn and install
SignColdRequest ==
    /\ pc = "signing"
    /\ \E e \in RangeNext(sigMap), signed \in BOOLEAN :
          /\ log' = Append(log, Call("SignTxn", e[1], e[2]))
          /\ IF signed
             THEN /\ txn' = [txn EXCEPT
                        ![("sigs")][e[1] + 1].signature = DeviceSig(e[1], e[2])]
                  /\ sigMap' = sigMap \ {e}
                  /\ pc' = IF sigMap \ {e} = {} THEN "finish" ELSE "signing"
                  /\ UNCHANGED <<exit, err>>
             ELSE /\ Fatal("Could not get signature")
                  /\ UNCHANGED <<txn, sigMap>>
    /\ UNCHANGED <<inv, env, loc, txn0, sigAll, tracked, nanos, seed,
                   disk, sent>>

\* ProtoWallet.SignTransaction(txn, nil): a filled signature for every input
\* whose address the wallet tracks
RECURSIVE SignTransaction(_, _, _)
SignTransaction(ins, sigs, trk) ==
    IF ins = <<>> THEN sigs
    ELSE LET in == Head(ins)
             keyIndex == KeyIndexOf(trk, UnlockHash(in.ucs))
         IN  IF Owned(trk, in)
             THEN SignTransaction(Tail(ins),
                      Append(sigs, [parentID |-> in.parentID,
                                    signature |-> [by |-> "seed",
                                                   sigIndex |-> Len(sigs),
                                                   keyIndex |-> keyIndex]]),
                      trk)
             ELSE SignTransaction(Tail(ins), sigs, trk)


\* signFlowHot: getSeed, the prompt, SignTransaction; its error goes back to
\* main, whose check reports it.  What a failed SignTransaction leaves in the
\* transaction is not determined here: any number of the entries it appends.
SignHot ==
    /\ pc = "sign" /\ inv.sign /\ ~inv.ledger
    /\ LET steps == SeedSteps \o <<Call("ReadLine", 0, 0),
                                   Call("SignTransaction", 0, 0)>>
           signed == SignTransaction(txn.inputs, txn.sigs, tracked)
       IN  \E o \in Outcomes(steps) :
              /\ log' = log \o External(Attempted(steps, o))
              /\ seed' = (seed \/ Did(steps, o, "getSeed"))
              /\ IF o = AllOk
                 THEN /\ txn' = [txn EXCEPT !.sigs = signed]
                      /\ pc' = "finish"
                      /\ UNCHANGED <<exit, err>>
                 ELSE IF o[1] = Len(steps)
                 THEN /\ \E k \in Len(txn.sigs)..Len(signed) :
                            txn' = [txn EXCEPT !.sigs = SubSeq(signed, 1, k)]
                      /\ Fatal(o[2])
                 ELSE /\ Abort(o[2])
                      /\ UNCHANGED txn
    /\ UNCHANGED <<inv, env, loc, txn0, sigMap, sigAll, tracked, nanos, disk, sent>>

\* ------------------------------------------------------- broadcast, write
\* the transaction is broadcast: --broadcast, or the broadcast command
Broadcasting == inv.broadcast \/ inv.cmd = "broadcast"

\* variant: no return after a successful broadcast, the file is written too
BroadcastFlowFallThrough ==
    /\ pc = "finish" /\ Broadcasting
    /\ log' = Append(log, Call("Broadcast", 0, 0))
    /\ \E accepted \in BOOLEAN :
          IF accepted
          THEN /\ sent' = Append(sent, txn)
               /\ disk' = Append(disk, <<inv.path, txn>>)
               /\ exit' = "done" /\ pc' = "exit"
               /\ UNCHANGED err
          ELSE /\ Fatal("Could not broadcast transaction")
               /\ UNCHANGED <<sent, disk>>
    /\ UNCHANGED <<inv, env, loc, txn, txn0, sigMap, sigAll, tracked, nanos, seed>>

\* broadcastFlow
BroadcastFlow ==
    /\ pc = "finish" /\ Broadcasting
    /\ log' = Append(log, Call("Broadcast", 0, 0))
    /\ \E accepted \in BOOLEAN :
          IF accepted
          THEN /\ sent' = Append(sent, txn)
               /\ exit' = "done" /\ pc' = "exit"
               /\ UNCHANGED err
          ELSE /\ Fatal("Could not broadcast transaction")
               /\ UNCHANGED sent
    /\ UNCHANGED <<inv, env, loc, txn, txn0, sigMap, sigAll, tracked, nanos,
                   seed, disk>>

\* the path written: the file argument, or for sign the -signed variant
OutPath == IF inv.cmd = "sign" THEN SignedPath(inv.path) ELSE inv.path

\* writeTxn
WriteTxn ==
    /\ pc = "finish" /\ ~Broadcasting
    /\ \E written \in BOOLEAN :
          IF written
          THEN /\ disk' = Append(disk, <<OutPath, txn>>)
               /\ exit' = "done" /\ pc' = "exit"
               /\ UNCHANGED err
          ELSE /\ Fatal("Could not write transaction to disk")
               /\ UNCHANGED disk
    /\ UNCHANGED <<inv, env, loc, txn, txn0, sigMap, sigAll, tracked, nanos,
                   seed, log, sent>>

\* ------------------------------------------------------------------- spec
Next ==
    \/ AddrCmd
    \/ TxnParse
    \/ TxnDonation
    \/ TxnFetch
    \/ TxnFund
    \/ TxnChange
    \/ SplitParse
    \/ SplitFetch
    \/ SplitFund
    \/ SplitChange
    \/ SignRead
    \/ BroadcastRead
    \/ SkipSign
    \/ SignColdPrepare
    \/ SignColdRequest
    \/ SignHot
    \/ BroadcastFlow
    \/ WriteTxn

Spec == Init /\ [][Next]_vars

\* ------------------------------------------------------------- properties
CountOp(op) == Cardinality({i \in 1..Len(log) : log[i].op = op})

\* a txn or split run has built its transaction
Assembled == inv.cmd \in {"txn", "split"} /\ txn0 # EmptyTxn

OutputSum(t) == SumSeq([i \in 1..Len(t.outputs) |-> t.outputs[i].value])

\* the outputs the recipient argument of txn asks for
RecipientOutputs ==
    [i \in 1..Len(inv.pairs) |->
        [unlockHash |-> LoadString(inv.pairs[i][1]),
         value |-> parseCurrency(inv.pairs[i][2])]]

\* the two funding attempts of a txn run, from the values fetched
FirstAttempt ==
    FundTransaction(loc.recipSum + ComputeDonation(env.donations = "ok", loc.recipSum),
                    loc.feePerByte, loc.inputs)
SecondAttempt == FundTransaction(loc.recipSum, loc.feePerByte, loc.inputs)

StripValues(used) ==
    [i \in 1..Len(used) |-> [parentID |-> used[i].id, ucs |-> used[i].ucs]]

\* C1: when funding recipients+donation fails and funding the recipients alone
\* succeeds, the assembled transaction donates exactly the change of the
\* second attempt, has no change (so no change output), and uses the inputs
\* and fee of the second attempt.
DonationFallback ==
    (inv.cmd = "txn" /\ Assembled /\ ~FirstAttempt.ok /\ SecondAttempt.ok) =>
        /\ loc.donation = SecondAttempt.change
        /\ loc.change = 0
        /\ txn0.outputs = RecipientOutputs \o
               (IF SecondAttempt.change # 0
                THEN <<[unlockHash |-> loc.donationAddr,
                        value |-> SecondAttempt.change]>>
                ELSE <<>>)
        /\ txn0.inputs = StripValues(SecondAttempt.used)
        /\ txn0.minerFees = <<SecondAttempt.fee>>

DonationFallbackWitness ==
    /\ inv.cmd = "txn" /\ Assembled
    /\ ~FirstAttempt.ok /\ SecondAttempt.ok
    /\ SecondAttempt.change > 0
    /\ Len(txn0.outputs) = Len(inv.pairs) + 1

\* C2: on every successful funding path of txn the values of the used inputs
\* sum to the outputs of the transaction plus the miner fee, and change is
\* never negative.
ValueConservation ==
    (inv.cmd = "txn" /\ Assembled) =>
        /\ SumValues(loc.used) = OutputSum(txn0) + SumSeq(txn0.minerFees)
        /\ txn0.inputs = StripValues(loc.used)
        /\ Len(txn0.minerFees) = 1
        /\ loc.change >= 0
        /\ OutputSum(txn0) = loc.recipSum + loc.donation + loc.change

ValueConservationWitness ==
    /\ inv.cmd = "txn" /\ Assembled
    /\ loc.tries = 1 /\ loc.donation > 0 /\ loc.change > 0
    /\ Len(txn0.outputs) = Len(inv.pairs) + 2

\* positions of the draft's inputs whose address the wallet tracks
OwnedPositions == {i \in 1..Len(txn0.inputs) : Owned(tracked, txn0.inputs[i])}

\* the signature entry (1-based) that belongs to the owned input at position i
SlotOf(i) == Len(txn0.sigs) + Cardinality({j \in OwnedPositions : j <= i})

\* the signature entries added since signing started
NewSlots(t) == (Len(txn0.sigs) + 1)..Len(t.sigs)

Filled(slot) == slot.signature.by # "none"

\* C3: a successful device signing run adds exactly one signature entry per
\* owned input, after the entries already there; the entry of an owned input
\* carries its parent ID and holds the signature the device was asked for
\* with that entry's index and the key index the Ledger Service reports for
\* the input's address.  Inputs that are not owned get no entry.
ColdSignsOwnedInputs ==
    (pc = "finish" /\ inv.sign /\ inv.ledger) =>
        /\ Len(txn.sigs) = Len(txn0.sigs) + Cardinality(OwnedPositions)
        /\ \A i \in OwnedPositions :
              LET slot == txn.sigs[SlotOf(i)]
              IN  /\ slot.parentID = txn0.inputs[i].parentID
                  /\ Filled(slot)
                  /\ slot.signature.by = "nanos"
                  /\ slot.signature.sigIndex = SlotOf(i) - 1
                  /\ \E r \in tracked :
                        /\ r.addr = UnlockHash(txn0.inputs[i].ucs)
                        /\ slot.signature.keyIndex = r.keyIndex
                        /\ Call("SignTxn", SlotOf(i) - 1, r.keyIndex) \in Range(log)
        /\ CountOp("SignTxn") = Cardinality(OwnedPositions)

ColdSignsOwnedInputsWitness ==
    /\ pc = "finish" /\ inv.cmd = "sign" /\ inv.ledger
    /\ Cardinality(OwnedPositions) = 2
    /\ Len(txn0.inputs) = 3
    /\ ~Owned(tracked, txn0.inputs[1])
    /\ UnlockHash(txn0.inputs[2].ucs) = "w1"
    /\ Len(txn0.sigs) = 1
    /\ Len(txn.sigs) = 3

\* the transactions written to disk or broadcast
Published == {disk[i][2] : i \in 1..Len(disk)} \cup Range(sent)

\* the errors of a signing step that did not complete
SigningErrors ==
    {"Could not get signature", "Could not sign transaction",
     "Could not get addresses", "Could not connect to Nano S",
     "Could not read seed phrase", "Invalid seed"}

\* C4: a transaction is written or broadcast only with every signature entry
\* of this invocation filled; once a signature request has failed or the user
\* has cancelled at a prompt, nothing is written and no broadcast call is made.
NoPartialSignaturesPublished ==
    /\ \A t \in Published : \A k \in NewSlots(t) : Filled(t.sigs[k])
    /\ (err \in SigningErrors \/ exit = "killed") =>
          /\ disk = <<>> /\ sent = <<>> /\ CountOp("Broadcast") = 0
    /\ (pc = "finish" /\ inv.sign) =>
          /\ sigMap = {}
          /\ \A k \in NewSlots(txn) : Filled(txn.sigs[k])
    /\ (CountOp("Broadcast") > 0 /\ inv.sign) =>
          \A k \in NewSlots(txn) : Filled(txn.sigs[k])

NoPartialSignaturesPublishedWitness ==
    /\ err = "Could not get signature"
    /\ exit = "fatal"
    /\ \E k \in NewSlots(txn) : Filled(txn.sigs[k])
    /\ \E k \in NewSlots(txn) : ~Filled(txn.sigs[k])

\* C5 (as claimed): signature requests reach the device in increasing order
\* of their signature index.
SignRequestsInIndexOrder ==
    \A i, j \in 1..Len(log) :
        (i < j /\ log[i].op = "SignTxn" /\ log[j].op = "SignTxn") =>
            log[i].a < log[j].a

\* signFlowCold has opened the device and fetched the address list
ColdAddressesFetched ==
    /\ inv.sign /\ inv.ledger /\ CountOp("Addresses") = 1
    /\ err # "Could not get addresses"

\* the errors that can follow a signing step that returned without error
AfterSigningErrors ==
    {"", "Could not broadcast transaction", "Could not write transaction to disk"}

\* C6: signing a draft none of whose inputs is owned makes no signature
\* request and leaves the draft as it was; once signFlowCold has opened the
\* device and fetched the address list it returns without error: the command
\* goes on to the broadcast or write step, no signing error is reported and
\* the process is neither killed nor panics.
NothingToSignLeavesDraft ==
    (inv.sign /\ txn0 # EmptyTxn /\ OwnedPositions = {}) =>
        /\ txn = txn0
        /\ CountOp("SignTxn") = 0
        /\ sigMap = {} /\ sigAll = {}
        /\ pc # "signing"
        /\ err # "Could not get signature"
        /\ ColdAddressesFetched =>
              /\ pc \in {"finish", "exit"}
              /\ err \in AfterSigningErrors
              /\ exit \in {"running", "done", "fatal"}
              /\ (exit = "fatal") => err # ""

NothingToSignLeavesDraftWitness ==
    /\ pc = "finish" /\ inv.cmd = "sign" /\ inv.ledger
    /\ ColdAddressesFetched /\ exit = "running" /\ err = ""
    /\ Len(txn0.inputs) = 2
    /\ OwnedPositions = {}
    /\ Len(txn0.sigs) = 1
    /\ nanos

\* C7: the computed donation is zero without a donation address, and with
\* one it is the larger of 1% of the recipient total (the quotient in
\* Currency arithmetic) and 10 SC.
DonationAmount ==
    (inv.cmd = "txn" /\ pc \in {"fetch", "fund"}) =>
        IF env.donations = "ok"
        THEN /\ loc.donation >= 10 * SiacoinPrecision
             /\ loc.donation >= loc.recipSum \div 100
             /\ \/ loc.donation = 10 * SiacoinPrecision
                \/ loc.donation = loc.recipSum \div 100
             /\ loc.donationAddr = DonationAddress
        ELSE loc.donation = 0

DonationAmountWitness ==
    /\ inv.cmd = "txn" /\ pc = "fund"
    /\ env.donations = "ok"
    /\ loc.donation > 10 * SiacoinPrecision
    /\ loc.donation * 100 = loc.recipSum

InvalidInputErrors ==
    {"Invalid destination address", "Invalid currency value",
     "Could not parse number of outputs", "Could not parse change address"}

\* C8 (as claimed): an invalid argument aborts the command before any call
\* to the Ledger Service or the device.
InvalidInputBeforeCalls ==
    (exit = "fatal" /\ err \in InvalidInputErrors) => log = <<>>

\* the addresses registered with the Ledger Service in this run
Registered == tracked \ InitTracked

\* C9: a txn run registers a new address only when its final change is
\* non-zero and no --change address was given, and then once: AddAddress is
\* called at most once and only in that case, and every transaction assembled
\* in that case has its change output at the one address registered.
\* Otherwise the tracked set is unchanged, no AddAddress call is made, and a
\* given address is the change output's address.
ChangeAllocation ==
    (inv.cmd = "txn") =>
        /\ CountOp("AddAddress") <= 1
        /\ InitTracked \subseteq tracked
        /\ Cardinality(Registered) <= CountOp("AddAddress")
        /\ (CountOp("AddAddress") = 1) =>
              (loc.change # 0 /\ inv.changeAddrStr = "")
        /\ (Registered # {}) => Assembled
        /\ (Assembled /\ loc.change # 0 /\ inv.changeAddrStr = "") =>
              /\ CountOp("AddAddress") = 1
              /\ Cardinality(Registered) = 1
              /\ \E r \in Registered :
                    txn0.outputs[Len(txn0.outputs)] =
                        [unlockHash |-> r.addr, value |-> loc.change]
        /\ (Assembled /\ ~(loc.change # 0 /\ inv.changeAddrStr = "")) =>
              (Registered = {} /\ CountOp("AddAddress") = 0)
        /\ (Assembled /\ loc.change # 0 /\ inv.changeAddrStr = "s:c9") =>
              txn0.outputs[Len(txn0.outputs)] =
                  [unlockHash |-> "c9", value |-> loc.change]
        /\ (Assembled /\ loc.change = 0) =>
              Len(txn0.outputs) = Len(inv.pairs) + (IF loc.donation # 0 THEN 1 ELSE 0)

ChangeAllocationWitness ==
    /\ inv.cmd = "txn" /\ Assembled
    /\ loc.change # 0 /\ inv.changeAddrStr = ""
    /\ CountOp("AddAddress") = 1
    /\ tracked # InitTracked

InsufficientFundsErrors ==
    {"Could not create transaction: insufficient funds",
     "Could not create split transaction: insufficient funds"}

\* C10: txn reports insufficient funds exactly when both funding attempts
\* fail, split when the splitter selects no inputs; the command then ends
\* with no address registered, no signature request, no broadcast and no file.
InsufficientFundsNoEffects ==
    /\ (err \in InsufficientFundsErrors) =>
          /\ exit = "fatal"
          /\ tracked = InitTracked /\ CountOp("AddAddress") = 0
          /\ CountOp("SignTxn") = 0 /\ CountOp("SignTransaction") = 0
          /\ CountOp("Broadcast") = 0 /\ sent = <<>> /\ disk = <<>>
          /\ txn = EmptyTxn
    /\ (err = "Could not create transaction: insufficient funds") =>
          (~FirstAttempt.ok /\ ~SecondAttempt.ok)
    /\ (inv.cmd = "txn" /\ (Assembled \/ pc = "change")) =>
          (FirstAttempt.ok \/ SecondAttempt.ok)
    /\ (err = "Could not create split transaction: insufficient funds") =>
          DistributeFunds(loc.utxos, loc.n, loc.per, loc.feePerByte).used = <<>>
    /\ (inv.cmd = "split" /\ (Assembled \/ pc = "change")) =>
          DistributeFunds(loc.utxos, loc.n, loc.per, loc.feePerByte).used # <<>>

InsufficientFundsNoEffectsWitness ==
    /\ err = "Could not create transaction: insufficient funds"
    /\ env.donations = "ok"
    /\ Len(loc.inputs) = 2
    /\ log # <<>>

\* the result of the splitter for the values a split run fetched and parsed
Distributed == DistributeFunds(loc.utxos, loc.n, loc.per, loc.feePerByte)

\* C11: a split run whose splitter succeeds builds n outputs of the value
\* asked for, all to the change address, followed by one more output to the
\* same address holding the change exactly when the change is non-zero; it
\* has one input per selected output and the splitter's fee as its only fee.
SplitAssembly ==
    (inv.cmd = "split" /\ Assembled) =>
        /\ Len(txn0.outputs) = Atoi(inv.n) + (IF Distributed.change # 0 THEN 1 ELSE 0)
        /\ \A i \in 1..Atoi(inv.n) :
              /\ txn0.outputs[i].value = parseCurrency(inv.per)
              /\ txn0.outputs[i].unlockHash = loc.changeAddr
        /\ (Distributed.change # 0) =>
              txn0.outputs[Len(txn0.outputs)] =
                  [unlockHash |-> loc.changeAddr, value |-> Distributed.change]
        /\ \A i, j \in 1..Len(txn0.outputs) :
              txn0.outputs[i].unlockHash = txn0.outputs[j].unlockHash
        /\ Len(txn0.inputs) = Len(Distributed.used)
        /\ \A i \in 1..Len(txn0.inputs) :
              /\ txn0.inputs[i].parentID = Distributed.used[i].id
              /\ UnlockHash(txn0.inputs[i].ucs) = Distributed.used[i].unlockHash
        /\ txn0.minerFees = <<Distributed.fee>>
        /\ (inv.changeAddrStr = "s:c9") => loc.changeAddr = "c9"
        /\ (inv.changeAddrStr = "") =>
              \E r \in tracked \ InitTracked : r.addr = loc.changeAddr

SplitAssemblyWitness ==
    /\ inv.cmd = "split" /\ Assembled
    /\ Atoi(inv.n) = 2
    /\ Distributed.change # 0
    /\ Len(txn0.inputs) = 2
    /\ Len(txn0.outputs) = 3

\* a split run that ends with zero change, so without a change output
SplitAssemblyNoChange ==
    /\ inv.cmd = "split" /\ Assembled
    /\ Distributed.change = 0
    /\ Len(txn0.outputs) = Atoi(inv.n)

\* the signature entries of this call that hold signature bytes
FilledNewSlots == {k \in NewSlots(txn) : Filled(txn.sigs[k])}

\* a signature request failed after at least one earlier request succeeded
AbortedMidSigning == err = "Could not get signature" /\ CountOp("SignTxn") >= 2

\* C12 (as claimed): when the device fails after earlier entries were signed,
\* no signature entry of the draft holds bytes collected in this session and
\* the outputs and miner fee are as before signing.
PartialSignaturesDiscarded ==
    AbortedMidSigning =>
        /\ FilledNewSlots = {}
        /\ txn.outputs = txn0.outputs
        /\ txn.minerFees = txn0.minerFees

\* C12 (amended): when the device fails after earlier entries were signed,
\* the command ends there; the draft in memory keeps the signatures answered
\* before the failure (and only those), but it is never written or
\* broadcast, and its inputs, outputs, miner fee and earlier signature
\* entries are as before signing.
PartialSignaturesNeverLeave ==
    AbortedMidSigning =>
        /\ exit = "fatal" /\ pc = "exit"
        /\ Cardinality(FilledNewSlots) = CountOp("SignTxn") - 1
        /\ \E k \in NewSlots(txn) : ~Filled(txn.sigs[k])
        /\ txn.inputs = txn0.inputs
        /\ txn.outputs = txn0.outputs
        /\ txn.minerFees = txn0.minerFees
        /\ SubSeq(txn.sigs, 1, Len(txn0.sigs)) = txn0.sigs
        /\ disk = <<>> /\ sent = <<>> /\ CountOp("Broadcast") = 0

PartialSignaturesNeverLeaveWitness ==
    /\ AbortedMidSigning
    /\ inv.cmd = "sign"
    /\ CountOp("SignTxn") = 3
    /\ Cardinality(FilledNewSlots) = 2
    /\ Len(txn0.sigs) = 1

\* the signing step asked for has run to its end
SigningCompleted ==
    /\ sigMap = {}
    /\ Len(txn.sigs) = Len(txn0.sigs) + Cardinality(OwnedPositions)
    /\ \A k \in NewSlots(txn) : Filled(txn.sigs[k])

\* C13: in txn, split and sign, with --broadcast the transaction is
\* submitted and no file is written; without it the transaction is written once (by sign to the path
\* with -signed before the extension, not to the input path) and nothing is
\* broadcast; either step comes after the signing step asked for.
BroadcastXorWrite ==
    (inv.cmd \in {"txn", "split", "sign"}) =>
    /\ Len(disk) <= 1 /\ Len(sent) <= 1 /\ CountOp("Broadcast") <= 1
    /\ inv.broadcast => disk = <<>>
    /\ ~inv.broadcast => (sent = <<>> /\ CountOp("Broadcast") = 0)
    /\ (exit = "done" /\ inv.broadcast) =>
          (sent = <<txn>> /\ CountOp("Broadcast") = 1)
    /\ (exit = "done" /\ ~inv.broadcast) =>
          /\ Len(disk) = 1
          /\ disk[1][2] = txn
          /\ disk[1][1] = IF inv.cmd = "sign" THEN <<"txn-signed", ".json">>
                          ELSE inv.path
          /\ (inv.cmd = "sign") => disk[1][1] # inv.path
    /\ ((disk # <<>> \/ CountOp("Broadcast") > 0) /\ inv.sign) => SigningCompleted
    /\ (disk # <<>> \/ CountOp("Broadcast") > 0) =>
          (pc = "exit" /\ txn0 # EmptyTxn /\ (~inv.sign => txn = txn0))

BroadcastXorWriteWitness ==
    /\ exit = "done" /\ inv.cmd = "sign" /\ ~inv.broadcast /\ inv.ledger
    /\ Len(disk) = 1
    /\ Cardinality(OwnedPositions) = 2
    /\ CountOp("SignTxn") = 2

\* a txn run with --sign --broadcast that ends with the transaction sent
BroadcastXorWriteSent ==
    /\ exit = "done" /\ inv.cmd = "txn" /\ inv.broadcast /\ inv.sign
    /\ Len(sent) = 1 /\ disk = <<>>
    /\ Len(txn.sigs) > 0

\* C14: a txn run whose donation discovery fails ends with a zero donation
\* and no donation output, also after the funding fallback; a non-zero
\* donation implies that the donations endpoint gave an address, and every
\* donation output goes to that address.
DonationNeedsAddress ==
    (inv.cmd = "txn") =>
        /\ (env.donations # "ok") =>
              /\ loc.donation = 0
              /\ loc.donationAddr = ZeroHash
              /\ Assembled =>
                    /\ loc.tries = 1
                    /\ Len(txn0.outputs) =
                          Len(inv.pairs) + (IF loc.change # 0 THEN 1 ELSE 0)
                    /\ SubSeq(txn0.outputs, 1, Len(inv.pairs)) = RecipientOutputs
        /\ (loc.donation # 0) =>
              /\ env.donations = "ok"
              /\ loc.donationAddr = DonationAddress
              /\ CountOp("Donations") = 1
        /\ \A i \in 1..Len(txn0.outputs) :
              /\ txn0.outputs[i].unlockHash # ZeroHash
              /\ (txn0.outputs[i].unlockHash = DonationAddress) =>
                    /\ env.donations = "ok"
                    /\ i = Len(inv.pairs) + 1
                    /\ txn0.outputs[i].value = loc.donation
                    /\ loc.donation # 0

DonationNeedsAddressWitness ==
    /\ inv.cmd = "txn" /\ Assembled
    /\ env.donations = "error"
    /\ CountOp("Donations") = 1
    /\ loc.change # 0
    /\ Len(txn0.outputs) = Len(inv.pairs) + 1

\* a run without a donation address in which funding fails: both attempts
\* ask for the same amount, so the fallback cannot succeed
DonationNeedsAddressNoFallback ==
    /\ inv.cmd = "txn" /\ env.donations # "ok"
    /\ err = "Could not create transaction: insufficient funds"
    /\ loc.tries = 2
    /\ loc.inputs # <<>>

\* signFlowCold has built its signature entries in this run
ColdPrepared ==
    /\ inv.sign /\ inv.ledger /\ CountOp("Addresses") = 1
    /\ ~(exit = "fatal" /\ err \in {"Could not get addresses",
                                     "Could not get address info"})

\* the owned inputs of the draft, in input order
OwnedInputs == SelectSeq(txn0.inputs, LAMBDA in : Owned(tracked, in))

\* C15: signFlowCold leaves the entries present before the call, the inputs,
\* the outputs and the miner fee as they were; it appends one entry per owned
\* input after the existing ones, whatever signatures are already there, and
\* requests and installs signatures only for the entries it appended.
ColdSigningAppendOnly ==
    (inv.sign /\ inv.ledger /\ txn0 # EmptyTxn) =>
        /\ txn.inputs = txn0.inputs
        /\ txn.outputs = txn0.outputs
        /\ txn.minerFees = txn0.minerFees
        /\ Len(txn.sigs) >= Len(txn0.sigs)
        /\ SubSeq(txn.sigs, 1, Len(txn0.sigs)) = txn0.sigs
        /\ (CountOp("Addresses") = 0) => txn.sigs = txn0.sigs
        /\ Len(txn.sigs) <= Len(txn0.sigs) + Len(OwnedInputs)
        /\ ColdPrepared => Len(txn.sigs) = Len(txn0.sigs) + Len(OwnedInputs)
        /\ \A j \in 1..(Len(txn.sigs) - Len(txn0.sigs)) :
              txn.sigs[Len(txn0.sigs) + j].parentID = OwnedInputs[j].parentID
        /\ \A e \in sigAll : e[1] + 1 \in NewSlots(txn)
        /\ \A i \in 1..Len(log) :
              (log[i].op = "SignTxn") => (log[i].a + 1 \in NewSlots(txn))

ColdSigningAppendOnlyWitness ==
    /\ pc = "finish" /\ inv.cmd = "sign" /\ inv.ledger
    /\ Len(txn0.sigs) = 1
    /\ Len(txn0.inputs) >= 1
    /\ Owned(tracked, txn0.inputs[1])
    /\ txn0.sigs[1].parentID = txn0.inputs[1].parentID
    /\ txn.sigs[1] = txn0.sigs[1]
    /\ Len(txn.sigs) >= 2
    /\ txn.sigs[2].parentID = txn0.inputs[1].parentID
    /\ txn.sigs[2].signature.by = "nanos"

====
